---------------------------- MODULE Spec2Model ----------------------------
(***************************************************************************)
(* A model of the abc notation reader of theothertomelliott/abc, package   *)
(* parse: the scanner (lexer, a goroutine that runs state functions and    *)
(* sends items on an unbuffered channel) and the parser (parser.parse and  *)
(* its header field handlers, which build abc.Tune records).               *)
(*                                                                         *)
(* Text is a sequence of one-character strings; a byte offset p of the Go  *)
(* code (0-based) is the element p+1 of the sequence.  The inputs are      *)
(* ASCII, so every rune is one byte wide.                                  *)
(***************************************************************************)
EXTENDS Integers, Sequences, FiniteSets, TLC

VARIABLES
    input,      \* lexer.input: the text being scanned
    l,          \* the lexer's fields pos, start, width, line
    state,      \* run's local: the next state function, "nil" when the scan is over
    outbox,     \* the items the state function just run has yet to send: the
                \* goroutine is blocked in `l.items <- item` on Head(outbox)
    closed,     \* close(l.items) has run
    sent,       \* history: the items received from the channel, in order
    p,          \* the parser: its fields tunes and currentTune, and the position,
                \* locals and result of parse and of the handler it is in
    src,        \* the itemSource of the parser's test: pos, and end: pos has
                \* reached len(items)
    g           \* history of the parse (read by the properties only)

vars == <<input, l, state, outbox, closed, sent, p, src, g>>

-----------------------------------------------------------------------------
(* Bounds *)

\* Longest enumerated input text.
MaxLen == 3
\* Iterations of a scanning loop followed once the position is past the end of
\* the input (from there every iteration reads eof again).
MaxOverrun == 2
\* Longest item list of an itemSource.
MaxItems == 10
\* the most lines of a header block among the input texts
MaxLines == 3

-----------------------------------------------------------------------------
(* Runes *)

eof == "<eof>"

Digits == {"0", "1", "2", "3", "4", "5", "6", "7", "8", "9"}

Letters ==
    {"a", "b", "c", "d", "e", "f", "g", "h", "i", "j", "k", "l", "m",
     "n", "o", "p", "q", "r", "s", "t", "u", "v", "w", "x", "y", "z",
     "A", "B", "C", "D", "E", "F", "G", "H", "I", "J", "K", "L", "M",
     "N", "O", "P", "Q", "R", "S", "T", "U", "V", "W", "X", "Y", "Z"}

IsDigit(r) == r \in Digits

IsLetter(r) == r \in Letters

isSpace(r) == r = " " \/ r = "\t"

isEndOfLine(r) == r = "\r" \/ r = "\n"

headerX == "X"
headerT == "T"
headerN == "N"
headerM == "M"
headerL == "L"
headerK == "K"
headerC == "C"
headerO == "O"
headerR == "R"
colon == <<":">>

-----------------------------------------------------------------------------
(* Items *)

Item(t, ps, v, ln) == [typ |-> t, pos |-> ps, val |-> v, line |-> ln]

\* The nil *item: what a receive from the closed channel, or an exhausted
\* itemSource, returns.
NilItem == Item("nil", 0, <<>>, 0)

-----------------------------------------------------------------------------
(* The lexer's primitives.  A lexer value lx is the lexer's fields together  *)
(* with out, the items sent so far by the state function being run.          *)

\* strings.HasPrefix(l.input[at:], s)
HasPrefix(at, s) ==
    /\ at + Len(s) <= Len(input)
    /\ SubSeq(input, at + 1, at + Len(s)) = s

\* the rune next() returns
rune(lx) == IF lx.pos >= Len(input) THEN eof ELSE input[lx.pos + 1]

next(lx) ==
    IF lx.pos >= Len(input)
    THEN [lx EXCEPT !.width = 0]
    ELSE [lx EXCEPT !.width = 1,
                    !.pos = @ + 1,
                    !.line = IF input[lx.pos + 1] = "\n" THEN @ + 1 ELSE @]

backup(lx) ==
    LET np == lx.pos - lx.width
    IN  [lx EXCEPT !.pos = np,
                   !.line = IF lx.width = 1 /\ input[np + 1] = "\n"
                            THEN @ - 1 ELSE @]

\* the lexer after peek(); the rune peek returns is rune(lx)
peek(lx) == backup(next(lx))

emit(lx, t) ==
    [lx EXCEPT !.out = Append(@, Item(t, lx.start,
                                      SubSeq(input, lx.start + 1, lx.pos), lx.line)),
               !.start = lx.pos]

\* strings.Count(l.input[from:to], "\n")
CountNewlines(from, to) ==
    Cardinality({i \in (from + 1)..to : input[i] = "\n"})

ignore(lx) ==
    [lx EXCEPT !.line = @ + CountNewlines(lx.start, lx.pos),
               !.start = lx.pos]

RECURSIVE acceptRun(_, _)
acceptRun(lx, valid) ==
    IF rune(lx) \in valid
    THEN acceptRun(next(lx), valid)
    ELSE backup(next(lx))

acceptDecimalRun(lx) == acceptRun(lx, Digits)

\* errorf sends the error item; the nil state it returns is for its caller to
\* return in turn.
errorf(lx, msg) ==
    [lx EXCEPT !.out = Append(@, Item("itemError", lx.start, <<msg>>, lx.line))]

RECURSIVE ignoreWhitespace(_)
ignoreWhitespace(lx) ==
    IF isSpace(rune(lx))
    THEN ignoreWhitespace(ignore([peek(lx) EXCEPT !.pos = @ + 1]))
    ELSE peek(lx)

RECURSIVE consumeToEndOfLine(_)
consumeToEndOfLine(lx) ==
    IF ~isEndOfLine(rune(lx)) /\ rune(lx) # eof
    THEN consumeToEndOfLine([peek(lx) EXCEPT !.pos = @ + 1])
    ELSE peek(lx)

acceptNewline(lx) ==
    IF rune(lx) = eof THEN next(lx)
    ELSE IF ~isEndOfLine(rune(lx))
         THEN errorf(next(lx), "expected newline")
         ELSE emit(next(lx), "itemNewline")

\* ignoreNewline sending the newline as acceptNewline does
ignoreNewlineSent(lx) ==
    IF rune(lx) = eof THEN next(lx)
    ELSE IF ~isEndOfLine(rune(lx))
         THEN errorf(next(lx), "expected newline")
         ELSE emit(next(lx), "itemNewline")

ignoreNewline(lx) ==
    IF rune(lx) = eof THEN next(lx)
    ELSE IF ~isEndOfLine(rune(lx))
         THEN errorf(next(lx), "expected newline")
         ELSE ignore(next(lx))

-----------------------------------------------------------------------------
(* The state functions.  Each returns the lexer after it and the state it    *)
(* returns.                                                                  *)

Ret(lx, st) == [lx |-> lx, st |-> st]

lexLine(lx) ==
    IF rune(lx) = eof
    THEN Ret(emit(peek(lx), "itemEOF"), "nil")
    ELSE IF HasPrefix(lx.pos + 1, colon)
         THEN Ret(peek(lx), "lexHeaderLine")
         ELSE Ret(peek(lx), "lexBodyLine")

\* The item of the two-character marker lexBodyLine finds at l.input[at:],
\* "none" when there is none.
BodyMarker(at) ==
    IF HasPrefix(at, <<"|", "]">>) THEN "itemThinThickDoubleBarLine"
    ELSE IF HasPrefix(at, <<"|", "|">>) THEN "itemThinThinDoubleBarLine"
    ELSE IF HasPrefix(at, <<"[", "|">>) THEN "itemThickThinDoubleBarLine"
    ELSE IF HasPrefix(at, <<"|", ":">>) THEN "itemStartRepeat"
    ELSE IF HasPrefix(at, <<":", "|">>) THEN "itemEndRepeat"
    ELSE IF \/ HasPrefix(at, <<":", ":">>)
            \/ HasPrefix(at, <<":", "|", ":">>)
            \/ HasPrefix(at, <<":", "|", "|", ":">>) THEN "itemStartEndRepeats"
    ELSE IF HasPrefix(at, <<".", "|">>) THEN "itemDottedBarline"
    ELSE "none"

\* lexBodyLine's switch on c := l.next(); lx is the lexer after that next().
BodyChar(lx, c) ==
    CASE c = "%" -> Ret(emit(lx, "itemPercent"), "lexComment")
      [] isSpace(c) -> Ret(emit(lx, "itemSpace"), "lexBodyLine")
      [] c = "x" -> Ret(emit(lx, "itemInvisibleRest"), "lexBodyLine")
      [] c = "z" -> Ret(emit(lx, "itemRest"), "lexBodyLine")
      [] c = "Z" -> Ret(emit(lx, "itemMultiMeasureRest"), "lexBodyLine")
      [] IsLetter(c) /\ c \notin {"x", "z", "Z"} -> Ret(emit(lx, "itemLetter"), "lexBodyLine")
      [] c = "^" -> Ret(emit(lx, "itemSharp"), "lexBodyLine")
      [] c = "=" -> Ret(emit(lx, "itemNatural"), "lexBodyLine")
      [] c = "_" -> Ret(emit(lx, "itemFlat"), "lexBodyLine")
      [] c = "/" -> Ret(emit(lx, "itemDivide"), "lexBodyLine")
      [] c = "\\" -> Ret(ignoreNewline(ignore(lx)), "lexBodyLine")
      [] c = "\"" -> Ret(ignore(lx), "lexChord")
      [] c = "|" -> Ret(emit(lx, "itemBarline"), "lexBodyLine")
      [] c = "+" -> Ret(emit(lx, "itemPlus"), "lexBodyLine")
      [] c = "<" -> Ret(emit(lx, "itemLessThan"), "lexBodyLine")
      [] c = ">" -> Ret(emit(lx, "itemGreaterThan"), "lexBodyLine")
      [] c = "-" -> Ret(emit(lx, "itemMinus"), "lexBodyLine")
      [] c = "[" -> IF IsDigit(rune(lx))
                    THEN Ret(ignore(peek(lx)), "lexVariant")
                    ELSE Ret(errorf(peek(lx), "unexpected character after ["),
                             "lexBodyLine")
      [] c = ":" -> Ret(emit(lx, "itemColon"), "lexBodyLine")
      [] c = eof -> Ret(emit(lx, "itemEOF"), "nil")
      [] OTHER -> Ret(errorf(lx, "unknown character"), "nil")

lexBodyLine(lx) ==
    IF isEndOfLine(rune(lx))
    THEN Ret(acceptNewline(peek(lx)), "lexLine")
    ELSE IF IsDigit(rune(lx))
    THEN Ret(emit(acceptDecimalRun(peek(lx)), "itemNumber"), "lexLine")
    ELSE IF Len(input) - 2 > lx.pos /\ BodyMarker(lx.pos + 1) # "none"
    THEN Ret(emit([peek(lx) EXCEPT !.pos = @ + 2], BodyMarker(lx.pos + 1)),
             "lexBodyLine")
    ELSE BodyChar(next(peek(lx)), rune(lx))

lexVariant(lx) ==
    LET a == emit(acceptDecimalRun(lx), "itemVariantNumber")
    IN  IF rune(a) = ","
        THEN Ret(emit([peek(a) EXCEPT !.pos = @ + 1], "itemVariantComma"), "lexVariant")
        ELSE IF rune(a) = "-"
        THEN Ret(emit([peek(a) EXCEPT !.pos = @ + 1], "itemVariantRange"), "lexVariant")
        ELSE Ret(peek(a), "lexLine")

\* lexChord with no case for the annotation positions
lexChordOnly(lx) == Ret(peek(lx), "lexChordLoop")

\* lexChord up to its loop
lexChord(lx) ==
    IF rune(lx) \in {"^", "_", "<", ">", "@"}
    THEN Ret(emit([peek(lx) EXCEPT !.pos = @ + 1], "itemAnnotationPosition"),
             "lexAnnotation")
    ELSE Ret(peek(lx), "lexChordLoop")

\* one iteration of lexChord's loop, or its exit and the rest of lexChord
lexChordLoop(lx) ==
    IF rune(lx) = "\""
    THEN Ret(ignore([emit(peek(lx), "itemChord") EXCEPT !.pos = @ + 1]), "lexBodyLine")
    ELSE Ret([peek(lx) EXCEPT !.pos = @ + 1], "lexChordLoop")

\* one iteration of lexAnnotation's loop, or its exit and the rest of lexAnnotation
lexAnnotation(lx) ==
    IF rune(lx) = "\""
    THEN Ret(ignore([emit(peek(lx), "itemAnnotation") EXCEPT !.pos = @ + 1]),
             "lexBodyLine")
    ELSE Ret([peek(lx) EXCEPT !.pos = @ + 1], "lexAnnotation")

lexComment(lx) ==
    Ret(acceptNewline(emit(consumeToEndOfLine(lx), "itemComment")), "lexLine")

lexHeaderLine(lx) ==
    LET fieldName == rune(lx)
        a == ignore([emit(next(lx), "itemFieldName") EXCEPT !.pos = @ + 1])
    IN  CASE fieldName = headerX -> Ret(a, "lexHeaderInt")
          [] fieldName \in {headerT, headerN} -> Ret(a, "lexHeaderString")
          [] fieldName = headerM -> Ret(a, "lexHeaderMeter")
          [] fieldName = headerL -> Ret(a, "lexHeaderNoteLength")
          [] fieldName \in {headerK, headerC, headerO, headerR} ->
                Ret(a, "lexHeaderString")
          [] OTHER -> Ret(errorf(a, "unknown header field"), "nil")

lexNextLine(lx) == Ret(acceptNewline(ignoreWhitespace(lx)), "lexLine")

lexHeaderInt(lx) ==
    Ret(emit(acceptDecimalRun(ignoreWhitespace(lx)), "itemNumber"), "lexNextLine")

lexHeaderString(lx) ==
    Ret(emit(consumeToEndOfLine(ignoreWhitespace(lx)), "itemString"), "lexNextLine")

\* lexHeaderMeter up to its loop
lexHeaderMeter(lx) == Ret(peek(ignoreWhitespace(lx)), "lexHeaderMeterLoop")

\* one iteration of lexHeaderMeter's loop (c is the rune peeked before it), or
\* its exit
lexHeaderMeterLoop(lx) ==
    LET c == rune(lx)
        a == [lx EXCEPT !.pos = @ + 1]
    IN  IF isEndOfLine(c) THEN Ret(lx, "lexNextLine")
        ELSE CASE IsDigit(c) ->
                    Ret(peek(emit(acceptDecimalRun(a), "itemNumber")), "lexHeaderMeterLoop")
               [] c = "(" -> Ret(peek(emit(a, "itemOpenParen")), "lexHeaderMeterLoop")
               [] c = ")" -> Ret(peek(emit(a, "itemCloseParen")), "lexHeaderMeterLoop")
               [] c = "+" -> Ret(peek(emit(a, "itemPlus")), "lexHeaderMeterLoop")
               [] c = "/" -> Ret(peek(emit(a, "itemDivide")), "lexHeaderMeterLoop")
               [] OTHER -> Ret(peek(a), "lexHeaderMeterLoop")

RECURSIVE lexHeaderNoteLengthLoop(_)
lexHeaderNoteLengthLoop(lx) ==
    LET c == rune(lx)
        a == [lx EXCEPT !.pos = @ + 1]
    IN  IF isEndOfLine(c) THEN Ret(lx, "lexNextLine")
        ELSE CASE IsLetter(c) -> Ret(a, "lexHeaderString")
               [] IsDigit(c) ->
                    lexHeaderNoteLengthLoop(peek(emit(acceptDecimalRun(a), "itemNumber")))
               [] c = "/" -> lexHeaderNoteLengthLoop(peek(emit(a, "itemDivide")))
               [] OTHER -> Ret(errorf(a, "unknown character"), "nil")

lexHeaderNoteLength(lx) == lexHeaderNoteLengthLoop(peek(ignoreWhitespace(lx)))

\* state(l) in run's loop
Apply(st, lx) ==
    CASE st = "lexLine" -> lexLine(lx)
      [] st = "lexBodyLine" -> lexBodyLine(lx)
      [] st = "lexVariant" -> lexVariant(lx)
      [] st = "lexChord" -> lexChord(lx)
      [] st = "lexChordLoop" -> lexChordLoop(lx)
      [] st = "lexAnnotation" -> lexAnnotation(lx)
      [] st = "lexComment" -> lexComment(lx)
      [] st = "lexHeaderLine" -> lexHeaderLine(lx)
      [] st = "lexNextLine" -> lexNextLine(lx)
      [] st = "lexHeaderInt" -> lexHeaderInt(lx)
      [] st = "lexHeaderString" -> lexHeaderString(lx)
      [] st = "lexHeaderMeter" -> lexHeaderMeter(lx)
      [] st = "lexHeaderMeterLoop" -> lexHeaderMeterLoop(lx)
      [] st = "lexHeaderNoteLength" -> lexHeaderNoteLength(lx)

\* The states whose step is one iteration of a loop that does not test for eof.
LoopStates == {"lexChordLoop", "lexAnnotation", "lexHeaderMeterLoop"}


-----------------------------------------------------------------------------
(* Tunes *)

\* abc.Meter{} and abc.NoteLength{}
ZeroMeter == [Numerator |-> <<>>, Denominator |-> 0]

ZeroNoteLength == [Numerator |-> 0, Denominator |-> 0]

\* abc.Tune{}: every field at its zero value (a string is a sequence of runes)
ZeroTune ==
    [Area |-> <<>>, Book |-> <<>>, Composer |-> <<>>, Discography |-> <<>>,
     FileURL |-> <<>>, History |-> <<>>, Group |-> <<>>, Sequence |-> 0,
     Title |-> <<>>, Comments |-> <<>>, Rhythm |-> <<>>, Origin |-> <<>>,
     Meter |-> ZeroMeter, NoteLength |-> ZeroNoteLength, Key |-> <<>>,
     Source |-> <<>>, Transcription |-> <<>>, WordsAfterTune |-> <<>>,
     Bars |-> <<>>]

\* The header letters the parser names that the scanner's constants do not give.
headerA == "A"
headerB == "B"
headerD == "D"
headerF == "F"
headerG == "G"
headerH == "H"
headerI == "I"
headerm == "m"
headerP == "P"
headerQ == "Q"
headerr == "r"
headerS == "S"
headers == "s"
headerU == "U"
headerV == "V"
headerW == "W"
headerw == "w"
headerZ == "Z"

DigitValue(d) == CHOOSE n \in 0..9 : <<"0", "1", "2", "3", "4", "5", "6", "7", "8", "9">>[n + 1] = d

RECURSIVE DecimalValue(_)
DecimalValue(s) ==
    IF s = <<>> THEN 0
    ELSE 10 * DecimalValue(SubSeq(s, 1, Len(s) - 1)) + DigitValue(s[Len(s)])

\* strconv.Atoi with its error dropped: 0 for a text that is no decimal integer
\* (the texts here are far too short to overflow an int)
Atoi(s) ==
    LET signed == s # <<>> /\ s[1] \in {"+", "-"}
        body == IF signed THEN Tail(s) ELSE s
    IN  IF body = <<>> \/ \E i \in 1..Len(body) : body[i] \notin Digits THEN 0
        ELSE IF signed /\ s[1] = "-" THEN 0 - DecimalValue(body)
        ELSE DecimalValue(body)

-----------------------------------------------------------------------------
(* The parser.  p.pc is where parse, or the handler it called, waits in      *)
(* nextItem; each operator below is the code from one nextItem to the next,  *)
(* given the item it received.  p.currentTune is <<>> for nil and <<t>> for  *)
(* a pointer to t.                                                           *)

\* return nil, err from parse
ReturnErr(q) == [q EXCEPT !.pc = "returned", !.ret = [err |-> TRUE, tunes |-> <<>>]]

\* return nil from a handler, back to parse's nextItem: the handler's locals
\* are gone
ReturnNil(q) ==
    [q EXCEPT !.pc = "parse", !.field = "", !.val = <<>>, !.meter = ZeroMeter,
              !.noteLength = ZeroNoteLength]

\* the nil pointer dereference of p.currentTune.<field> = ... with no tune
Panic(q) == [q EXCEPT !.pc = "panic"]

\* an assignment to a field that also clears the sequence number
AssignClearsSequence(q, f, v) ==
    IF q.currentTune = <<>> THEN Panic(q)
    ELSE [q EXCEPT !.currentTune[1][f] = v, !.currentTune[1].Sequence = 0]

\* p.currentTune.<f> = v
Assign(q, f, v) ==
    IF q.currentTune = <<>> THEN Panic(q)
    ELSE [q EXCEPT !.currentTune[1][f] = v]

\* expect(types...) returns no error for this item
expect(it, types) == it # NilItem /\ it.typ \in types

\* finish without the append of the tune in progress
finishWithoutLast(q) ==
    [q EXCEPT !.pc = "returned", !.ret = [err |-> FALSE, tunes |-> q.tunes]]

\* the end of parse, after its loop: the tune in progress is appended and the
\* tunes returned
finish(q) ==
    LET all == IF q.currentTune # <<>> THEN Append(q.tunes, q.currentTune[1])
               ELSE q.tunes
    IN  [q EXCEPT !.tunes = all, !.pc = "returned",
                  !.ret = [err |-> FALSE, tunes |-> all]]

\* the field of abc.Tune a simple string header sets
ScalarField(letter) ==
    CASE letter = headerA -> "Area"
      [] letter = headerB -> "Book"
      [] letter = headerC -> "Composer"
      [] letter = headerD -> "Discography"
      [] letter = headerF -> "FileURL"
      [] letter = headerG -> "Group"
      [] letter = headerO -> "Origin"
      [] letter = headerR -> "Rhythm"
      [] letter = headerS -> "Source"
      [] letter = headerT -> "Title"
      [] letter = headerZ -> "Transcription"

\* an unknown field skipped like the fields with no handling
unhandledSkipped(q) == [q EXCEPT !.pc = "consumeToNewline"]

\* handleFieldName's last line: no case matched
unhandled(q) == ReturnErr(q)

\* handleFieldName up to the first nextItem of the handler it calls
handleFieldName(q, it) ==
    LET f == [q EXCEPT !.field = it.val[1]]
        letter == IF Len(it.val) = 1 THEN it.val[1] ELSE ""
    IN  CASE letter \in {headerA, headerB, headerC, headerD, headerF, headerG,
                         headerO, headerR, headerS, headerT, headerZ} ->
                [f EXCEPT !.pc = "expectString"]
          [] letter = headerH -> [f EXCEPT !.pc = "addHistory"]
          [] letter \in {headerI, headerK, headerm, headerP, headerQ, headerr,
                         headers, headerU, headerV, headerw} ->
                [f EXCEPT !.pc = "consumeToNewline"]
          [] letter = headerL ->
                [f EXCEPT !.pc = "setNoteLength", !.noteLength = ZeroNoteLength]
          [] letter = headerM -> [f EXCEPT !.pc = "setMeter", !.meter = ZeroMeter]
          [] letter = headerN -> [f EXCEPT !.pc = "addNotes"]
          [] letter = headerW -> [f EXCEPT !.pc = "addWordsAfterTune"]
          [] letter = headerX -> [f EXCEPT !.pc = "setSequence"]
          [] OTHER -> unhandled(q)

handleItem(q, it) ==
    IF it.typ = "itemFieldName" THEN handleFieldName(q, it) ELSE q

\* parse with a stream that ends before any tune taken for an error
parseNoTuneFails(q, it) ==
    IF it = NilItem
    THEN IF q.currentTune = <<>> THEN ReturnErr(q) ELSE finish(q)
    ELSE handleItem(q, it)

\* parse's loop, from its nextItem
parse(q, it) == IF it = NilItem THEN finish(q) ELSE handleItem(q, it)

\* consumeToNewline stopping at the first item, whatever it is
consumeOneItem(q, it) == ReturnNil(q)

consumeToNewline(q, it) ==
    IF it = NilItem \/ it.typ = "itemNewline" THEN ReturnNil(q) ELSE q

expectNewline(q, it) ==
    IF expect(it, {"itemNewline"}) THEN ReturnNil(q) ELSE ReturnErr(q)

\* p.currentTune.<field>, err = p.expectString(), in expectString's expect:
\* on its error "" is assigned and the error returned
expectString(q, it) ==
    IF expect(it, {"itemString"})
    THEN [q EXCEPT !.val = it.val, !.pc = "expectString_newline"]
    ELSE LET a == Assign(q, ScalarField(q.field), <<>>)
         IN  IF a.pc = "panic" THEN a ELSE ReturnErr(a)

\* the same, in expectString's expectNewline: the string is assigned whatever
\* expectNewline returns
expectString_newline(q, it) ==
    LET a == Assign(q, ScalarField(q.field), q.val)
    IN  IF a.pc = "panic" THEN a
        ELSE IF expect(it, {"itemNewline"}) THEN ReturnNil(a)
        ELSE ReturnErr(a)

\* the new entry put first
PrependTo(q, f, v) ==
    IF q.currentTune = <<>> THEN Panic(q)
    ELSE [q EXCEPT !.currentTune[1][f] = <<v>> \o @, !.pc = "expectNewline"]

\* p.currentTune.<f> = append(p.currentTune.<f>, v)
AppendTo(q, f, v) ==
    IF q.currentTune = <<>> THEN Panic(q)
    ELSE [q EXCEPT !.currentTune[1][f] = Append(@, v), !.pc = "expectNewline"]

addNotes(q, it) ==
    IF expect(it, {"itemString"}) THEN AppendTo(q, "Comments", it.val)
    ELSE ReturnErr(q)

addWordsAfterTune(q, it) ==
    IF expect(it, {"itemString"}) THEN AppendTo(q, "WordsAfterTune", it.val)
    ELSE ReturnErr(q)

addHistory(q, it) ==
    IF expect(it, {"itemString"}) THEN AppendTo(q, "History", it.val)
    ELSE ReturnErr(q)

\* setMeter's loop with a plus recorded as a group of its own
setMeterPlusRecorded(q, it) ==
    IF it = NilItem \/ it.typ = "itemDivide" THEN [q EXCEPT !.pc = "setMeter_denominator"]
    ELSE IF it.typ \in {"itemNumber", "itemPlus"}
         THEN [q EXCEPT !.meter.Numerator = Append(@, Atoi(it.val))]
    ELSE ReturnErr(q)

\* setMeter's numerator loop, from its nextItem
setMeter(q, it) ==
    IF it = NilItem \/ it.typ = "itemDivide" THEN [q EXCEPT !.pc = "setMeter_denominator"]
    ELSE IF it.typ = "itemNumber"
         THEN [q EXCEPT !.meter.Numerator = Append(@, Atoi(it.val))]
    ELSE IF it.typ = "itemPlus" THEN q
    ELSE ReturnErr(q)

\* setMeter from the nextItem of expect(itemNumber)
setMeter_denominator(q, it) ==
    IF expect(it, {"itemNumber"})
    THEN LET m == [q.meter EXCEPT !.Denominator = Atoi(it.val)]
             a == Assign([q EXCEPT !.meter = m], "Meter", m)
         IN  IF a.pc = "panic" THEN a ELSE [a EXCEPT !.pc = "consumeToNewline"]
    ELSE ReturnErr(q)

setNoteLength(q, it) ==
    IF expect(it, {"itemNumber"})
    THEN [q EXCEPT !.noteLength.Numerator = Atoi(it.val), !.pc = "setNoteLength_divide"]
    ELSE ReturnErr(q)

setNoteLength_divide(q, it) ==
    IF expect(it, {"itemDivide"}) THEN [q EXCEPT !.pc = "setNoteLength_denominator"]
    ELSE ReturnErr(q)

setNoteLength_denominator(q, it) ==
    IF expect(it, {"itemNumber"})
    THEN LET n == [q.noteLength EXCEPT !.Denominator = Atoi(it.val)]
             a == Assign([q EXCEPT !.noteLength = n], "NoteLength", n)
         IN  IF a.pc = "panic" THEN a ELSE [a EXCEPT !.pc = "consumeToNewline"]
    ELSE ReturnErr(q)

\* setSequence starting the new tune from the one before it
setSequenceKeepsFields(q, it) ==
    IF expect(it, {"itemNumber"})
    THEN [q EXCEPT !.tunes = IF q.currentTune # <<>>
                             THEN Append(@, q.currentTune[1]) ELSE @,
                   !.currentTune =
                       IF q.currentTune # <<>>
                       THEN <<[q.currentTune[1] EXCEPT !.Sequence = Atoi(it.val)]>>
                       ELSE <<[ZeroTune EXCEPT !.Sequence = Atoi(it.val)]>>,
                   !.pc = "expectNewline"]
    ELSE ReturnErr(q)

setSequence(q, it) ==
    IF expect(it, {"itemNumber"})
    THEN [q EXCEPT !.tunes = IF q.currentTune # <<>>
                             THEN Append(@, q.currentTune[1]) ELSE @,
                   !.currentTune = <<[ZeroTune EXCEPT !.Sequence = Atoi(it.val)]>>,
                   !.pc = "expectNewline"]
    ELSE ReturnErr(q)

\* The parser from the nextItem it waits in to the next one, or to its return.
parserStep(q, it) ==
    CASE q.pc = "parse" -> parse(q, it)
      [] q.pc = "consumeToNewline" -> consumeToNewline(q, it)
      [] q.pc = "expectNewline" -> expectNewline(q, it)
      [] q.pc = "expectString" -> expectString(q, it)
      [] q.pc = "expectString_newline" -> expectString_newline(q, it)
      [] q.pc = "addNotes" -> addNotes(q, it)
      [] q.pc = "addWordsAfterTune" -> addWordsAfterTune(q, it)
      [] q.pc = "addHistory" -> addHistory(q, it)
      [] q.pc = "setMeter" -> setMeter(q, it)
      [] q.pc = "setMeter_denominator" -> setMeter_denominator(q, it)
      [] q.pc = "setNoteLength" -> setNoteLength(q, it)
      [] q.pc = "setNoteLength_divide" -> setNoteLength_divide(q, it)
      [] q.pc = "setNoteLength_denominator" -> setNoteLength_denominator(q, it)
      [] q.pc = "setSequence" -> setSequence(q, it)

\* parse has returned, or the program has stopped on a panic
ParserOver == p.pc \in {"none", "returned", "panic"}


-----------------------------------------------------------------------------
(* The history of a parse: what the parser was handed, kept apart from the   *)
(* parser's own state.                                                       *)
(*   sawError     an error item was handed to the parser                     *)
(*   at           where the parser waited when it was handed its last item   *)
(*   dispatched   the text of that item when it was a field name handed to   *)
(*                handleFieldName, <<>> otherwise                            *)
(*   handled      the text of the last field name handed to handleFieldName  *)
(*   xlog         the number texts of the X fields read so far               *)
(*   flog         <<name, string>> of every string field read since the      *)
(*                last X field                                               *)
(*   mtoks        the items handed to the handler of the last field name,    *)
(*                when that is an M field: the type of each and, of a        *)
(*                number, its text                                           *)
(*   tuneAtField  p.currentTune when the last field name was dispatched      *)
(*   onlyEOF      every item handed to the parser so far was an end-of-input *)
(*                item (or the nil that ends the stream)                     *)
(*   lineEnd      the last item handed to the parser was a newline item or   *)
(*                the nil that ends the stream                               *)

NoHistory ==
    [sawError |-> FALSE, at |-> "none", dispatched |-> <<>>, handled |-> <<>>,
     xlog |-> <<>>, flog |-> <<>>, mtoks |-> <<>>, tuneAtField |-> <<>>,
     onlyEOF |-> TRUE, lineEnd |-> FALSE]

StringHandlers == {"expectString", "addNotes", "addWordsAfterTune", "addHistory"}

MeterHandler == {"setMeter", "setMeter_denominator", "consumeToNewline"}

Observe(q, it, h) ==
    LET isX == q.pc = "setSequence" /\ it.typ = "itemNumber"
        dispatch == q.pc = "parse" /\ it.typ = "itemFieldName"
    IN  [sawError |-> h.sawError \/ it.typ = "itemError",
         at |-> q.pc,
         dispatched |-> IF dispatch THEN it.val ELSE <<>>,
         handled |-> IF dispatch THEN it.val ELSE h.handled,
         xlog |-> IF isX THEN Append(h.xlog, it.val) ELSE h.xlog,
         flog |-> IF isX THEN <<>>
                  ELSE IF q.pc \in StringHandlers /\ it.typ = "itemString"
                       THEN Append(h.flog, <<h.handled, it.val>>)
                  ELSE h.flog,
         mtoks |-> IF dispatch THEN <<>>
                   ELSE IF q.pc \in MeterHandler /\ h.handled = <<"M">>
                        THEN Append(h.mtoks,
                                    [typ |-> it.typ,
                                     val |-> IF it.typ = "itemNumber" THEN it.val
                                             ELSE <<>>])
                   ELSE h.mtoks,
         tuneAtField |-> IF dispatch THEN q.currentTune ELSE h.tuneAtField,
         onlyEOF |-> h.onlyEOF /\ it.typ \in {"itemEOF", "nil"},
         lineEnd |-> it.typ \in {"itemNewline", "nil"}]

-----------------------------------------------------------------------------
(* Inputs *)

Alphabet ==
    {"X", "M", "L", "a", ":", "1", "/", "\n", "\\", "[", "\"", "#", "^", "%", " ", "|"}

\* The input texts of TestLexItems.
SampleComment == <<"%", "a", "b", "c", "-", "2", ".", "1">>

SampleHeaders ==
    <<"X", ":", "1", "\n", "M", ":", "4", "/", "4", "\n",
      "O", ":", "I", "r", "i", "s", "h", "\n", "R", ":", "R", "e", "e", "l">>

SampleBody == <<"e", "g", "|", "a", "2", "a", "b", " ", "a", "g", "e", "g", "|">>

SampleHeadersBody ==
    <<"M", ":", "4", "/", "4", "\n", "O", ":", "I", "r", "i", "s", "h", "\n",
      "R", ":", "R", "e", "e", "l", "\n">> \o SampleBody

SampleEscapedNewline ==
    <<"e", "g", "|", "a", "2", "1", "a", "b", "\\", "\n", "a", "g", "e", "g", "|">>

SampleChords ==
    <<"\"", "A", "m", "\"", " ", "\"", ">", "A", "n", "n", "o", "t", "a", "t", "i",
      "o", "n", "\"">>

\* A variant marker and a note length field, which the tests do not scan.
SampleVariant == <<"[", "1", ",", "2", "-", "3", "a", "\n", "L", ":", "1", "/", "8", "\n">>

\* Two digits on two physical lines joined by an escaped newline.
SampleEscapedDigits == <<"1", "\\", "\n", "1">>

\* Meter fields with a space, or a character the scanner has no case for,
\* between their numbers and signs.
MeterLines ==
    {<<"M", ":", "4", " ", "/", "4", "\n">>,
     <<"M", ":", "4", "+", "a", "1", "/", "4", "\n">>}

\* A header line of each kind with no newline after it: the whole text.
LastLines ==
    {<<"X", ":", "1">>, <<"T", ":", "a">>, <<"M", ":", "4", "/", "4">>,
     <<"L", ":", "1", "/", "8">>}

Samples ==
    {SampleComment, SampleHeaders, SampleBody, SampleHeadersBody,
     SampleEscapedNewline, SampleChords, SampleVariant, SampleEscapedDigits}
    \cup LastLines \cup MeterLines

ShortInputs == UNION {[1..n -> Alphabet] : n \in 0..MaxLen}

\* Header lines the scanner has a case for, ended by a newline or by a carriage
\* return and a newline (isEndOfLine takes both characters for an end of line).
HeaderLines ==
    {body \o end : body \in {<<"X", ":", "1">>, <<"M", ":", "4", "/", "4">>,
                              <<"T", ":", "a">>},
                   end \in {<<"\n">>, <<"\r", "\n">>}}

RECURSIVE Flatten(_)
Flatten(ss) == IF ss = <<>> THEN <<>> ELSE Head(ss) \o Flatten(Tail(ss))

\* The header blocks of up to MaxLines of these lines.
HeaderBlocks == UNION {{Flatten(f) : f \in [1..n -> HeaderLines]} : n \in 1..MaxLines}

Inputs == ShortInputs \cup Samples \cup HeaderBlocks

\* The items of an itemSource: as TestParse builds them, with no position or line.
FieldLetters ==
    {"A", "B", "C", "D", "F", "G", "H", "I", "K", "L", "M", "m", "N", "O", "P",
     "Q", "R", "r", "S", "s", "T", "U", "V", "W", "w", "X", "Z", "Y", "E"}

Tokens ==
    {Item("itemFieldName", 0, <<c>>, 0) : c \in FieldLetters}
    \cup {Item("itemNumber", 0, v, 0) : v \in {<<"4">>, <<"1", "2">>}}
    \cup {Item("itemString", 0, v, 0) : v \in {<<"a">>, <<"b">>}}
    \cup {Item("itemNewline", 0, <<"\n">>, 0), Item("itemDivide", 0, <<"/">>, 0),
          Item("itemPlus", 0, <<"+">>, 0), Item("itemLetter", 0, <<"a">>, 0),
          Item("itemError", 0, <<"unknown character">>, 0),
          Item("itemEOF", 0, <<>>, 0)}

-----------------------------------------------------------------------------
(* Initial states *)

\* &lexer{input: input, line: 1} and the run goroutine started
LexerStarted(in) ==
    /\ input = in
    /\ l = [pos |-> 0, start |-> 0, width |-> 0, line |-> 1]
    /\ state = "lexLine"
    /\ outbox = <<>>
    /\ closed = FALSE
    /\ sent = <<>>

\* &parser{lexer: ...} at its first nextItem
NewParser ==
    [tunes |-> <<>>, currentTune |-> <<>>, pc |-> "parse", field |-> "",
     val |-> <<>>, meter |-> ZeroMeter, noteLength |-> ZeroNoteLength,
     ret |-> [err |-> FALSE, tunes |-> <<>>]]

\* Read: lex and parser.parse
Init ==
    /\ \E in \in Inputs : LexerStarted(in)
    /\ p = NewParser
    /\ src = [pos |-> 0, end |-> TRUE]
    /\ g = NoHistory

\* lex alone, its items received by a loop that takes whatever comes
InitLex ==
    /\ \E in \in Inputs : LexerStarted(in)
    /\ p = [NewParser EXCEPT !.pc = "none"]
    /\ src = [pos |-> 0, end |-> TRUE]
    /\ g = NoHistory

\* lex(input) on the short texts only
InitLexShort ==
    /\ \E in \in ShortInputs : LexerStarted(in)
    /\ p = [NewParser EXCEPT !.pc = "none"]
    /\ src = [pos |-> 0, end |-> TRUE]
    /\ g = NoHistory

\* parser.parse on an itemSource, as in TestParse
InitParse ==
    /\ input = <<>>
    /\ l = [pos |-> 0, start |-> 0, width |-> 0, line |-> 1]
    /\ state = "nil"
    /\ outbox = <<>>
    /\ closed = TRUE
    /\ sent = <<>>
    /\ p = NewParser
    /\ src = [pos |-> 0, end |-> FALSE]
    /\ g = NoHistory

-----------------------------------------------------------------------------
(* Actions *)

\* run on a channel with room for items: the goroutine goes on to the next
\* state function while items of the one before are still to be received
runAhead ==
    /\ state # "nil"
    /\ state \in LoopStates => l.pos < Len(input) + MaxOverrun
    /\ LET r == Apply(state, [pos |-> l.pos, start |-> l.start, width |-> l.width,
                              line |-> l.line, out |-> <<>>])
       IN  /\ l' = [pos |-> r.lx.pos, start |-> r.lx.start, width |-> r.lx.width,
                    line |-> r.lx.line]
           /\ outbox' = outbox \o r.lx.out
           /\ state' = r.st
    /\ UNCHANGED <<input, closed, sent, p, src, g>>

\* One iteration of run's loop: state = state(l).  The goroutine gets here
\* once every item of the state function before has been received.
run ==
    /\ state # "nil"
    /\ outbox = <<>>
    /\ state \in LoopStates => l.pos < Len(input) + MaxOverrun
    /\ LET r == Apply(state, [pos |-> l.pos, start |-> l.start, width |-> l.width,
                              line |-> l.line, out |-> <<>>])
       IN  /\ l' = [pos |-> r.lx.pos, start |-> r.lx.start, width |-> r.lx.width,
                    line |-> r.lx.line]
           /\ outbox' = r.lx.out
           /\ state' = r.st
    /\ UNCHANGED <<input, closed, sent, p, src, g>>

\* run after its loop: close(l.items)
runClose ==
    /\ state = "nil"
    /\ outbox = <<>>
    /\ ~closed
    /\ closed' = TRUE
    /\ UNCHANGED <<input, l, state, outbox, sent, p, src, g>>

\* A receive of a loop over l.items (drain, and the test's loop): it takes the
\* item the goroutine is sending.
drain ==
    /\ outbox # <<>>
    /\ sent' = Append(sent, Head(outbox))
    /\ outbox' = Tail(outbox)
    /\ UNCHANGED <<input, l, state, closed, p, src, g>>

\* lexer.nextItem called by the parser: the item the goroutine is sending, or
\* nil from the closed channel; and the parser up to its next nextItem.
nextItem ==
    /\ ~ParserOver
    /\ outbox # <<>> \/ closed
    /\ LET it == IF outbox # <<>> THEN Head(outbox) ELSE NilItem
       IN  /\ p' = parserStep(p, it)
           /\ g' = Observe(p, it, g)
           /\ sent' = IF outbox # <<>> THEN Append(sent, it) ELSE sent
           /\ outbox' = IF outbox # <<>> THEN Tail(outbox) ELSE outbox
    /\ UNCHANGED <<input, l, state, closed, src>>

\* itemSource.nextItem called by the parser, and the parser up to its next
\* nextItem.  The item list is drawn as it is read: an entry read ranges over
\* all of Tokens, and the list ends (src.end) at any length up to MaxItems.
itemSourceNextItem ==
    /\ ~ParserOver
    /\ \/ /\ ~src.end
          /\ src.pos < MaxItems
          /\ \E it \in Tokens :
                /\ p' = parserStep(p, it)
                /\ g' = Observe(p, it, g)
          /\ src' = [src EXCEPT !.pos = @ + 1]
       \/ /\ p' = parserStep(p, NilItem)
          /\ g' = Observe(p, NilItem, g)
          /\ src' = [src EXCEPT !.end = TRUE]
    /\ UNCHANGED <<input, l, state, outbox, closed, sent>>

Next == run \/ runClose \/ nextItem

NextLex == run \/ runClose \/ drain

NextParse == itemSourceNextItem

\* Read(text)
Spec == Init /\ [][Next]_vars

\* lex(text) and a loop that receives every item
SpecLex == InitLex /\ [][NextLex]_vars

\* The same, the goroutine and the receiving loop both scheduled for as long as
\* they can run.
FairSpecLex ==
    InitLexShort /\ [][NextLex]_vars /\ WF_vars(run) /\ WF_vars(runClose) /\ WF_vars(drain)

\* parser.parse on an itemSource
SpecParse == InitParse /\ [][NextParse]_vars


-----------------------------------------------------------------------------
(* Properties *)

\* C1: once the scanner has sent an error item it sends nothing more and the
\* stream ends: an error item is the last item received, with no item left to
\* send and no state function left to run.  (Checked under SpecLex.)
C1_ErrorIsTerminal ==
    \A i \in 1..Len(sent) :
        sent[i].typ = "itemError" =>
            /\ i = Len(sent)
            /\ outbox = <<>>
            /\ state = "nil"

\* C2: on every input text the scanner, its items being received, comes to
\* close its channel.  (Checked under FairSpecLex.)
C2_ScannerTerminates == <>closed

\* C3: when an error item was handed to the parser, Read returns an error and
\* no tunes.
C3_ScanErrorFailsParse ==
    (p.pc = "returned" /\ g.sawError) => (p.ret.err /\ p.ret.tunes = <<>>)

\* C4: when Read has returned, the scanning goroutine is not blocked sending an
\* item that nobody will receive.
C4_ProducerNotLeaked == p.pc = "returned" => outbox = <<>>

\* C5: Read of "X:1\nM:4/4\nO:Irish\nR:Reel" returns no error and the one tune
\* with Sequence 1, Meter 4/4, Origin "Irish" and Rhythm "Reel".
C5_SampleHeadersParsed ==
    (input = SampleHeaders /\ p.pc = "returned") =>
        /\ ~p.ret.err
        /\ p.ret.tunes =
              <<[ZeroTune EXCEPT !.Sequence = 1,
                                 !.Meter = [Numerator |-> <<4>>, Denominator |-> 4],
                                 !.Origin = <<"I", "r", "i", "s", "h">>,
                                 !.Rhythm = <<"R", "e", "e", "l">>]>>

\* C6: parse never faults: no handler writes to the tune in progress when
\* there is none.  (C6 to C10 are checked under SpecParse.)
C6_NeverFaults == p.pc # "panic"

\* The letters handleFieldName has a case for.
KnownFieldLetters ==
    {"A", "B", "C", "D", "F", "G", "H", "I", "K", "L", "M", "m", "N", "O", "P",
     "Q", "R", "r", "S", "s", "T", "U", "V", "W", "w", "X", "Z"}

\* C7: a field name that parse dispatches and whose text is not a known letter
\* makes parse return at once, with an error and no tunes.
C7_UnknownFieldFails ==
    (g.dispatched # <<>>
     /\ ~(Len(g.dispatched) = 1 /\ g.dispatched[1] \in KnownFieldLetters)) =>
        /\ p.pc = "returned"
        /\ p.ret.err
        /\ p.ret.tunes = <<>>

\* C7's case: an unknown field name after complete tunes were accumulated.
C7_Witness ==
    /\ g.dispatched = <<"Y">>
    /\ Len(p.tunes) >= 1
    /\ p.pc = "returned"
    /\ p.ret.err

\* The tunes parse holds: those it returned, or else those appended so far and
\* the one in progress.
TunesSoFar ==
    IF p.pc = "returned" /\ ~p.ret.err THEN p.ret.tunes
    ELSE p.tunes \o p.currentTune

\* C8: the tunes are one per X field read, in the order of the X fields, each
\* with the number of its X field; so are the tunes a successful parse returns.
C8_OneTunePerXField ==
    /\ Len(TunesSoFar) = Len(g.xlog)
    /\ \A i \in 1..Len(g.xlog) : TunesSoFar[i].Sequence = Atoi(g.xlog[i])

\* C8's case: a successful parse of two X fields.
C8_Witness ==
    /\ p.pc = "returned"
    /\ ~p.ret.err
    /\ g.xlog = << <<"1", "2">>, <<"4">> >>

\* The strings of the fields named name in a log of <<name, string>>, in order.
ValuesOf(name, log) ==
    LET sel == SelectSeq(log, LAMBDA e : e[1] = name)
    IN  [i \in 1..Len(sel) |-> sel[i][2]]

\* The string of the last field named name, "" when there is none.
LastOf(name, log) ==
    LET v == ValuesOf(name, log)
    IN  IF v = <<>> THEN <<>> ELSE v[Len(v)]

\* C9: between fields, the tune in progress holds in History, Comments and
\* WordsAfterTune the strings of its H, N and W fields, one entry each, in
\* their order; and in each scalar field the string of the last field of its
\* letter.
C9_ListsKeepOrderScalarsKeepLast ==
    ((p.pc = "parse" \/ (p.pc = "returned" /\ ~p.ret.err)) /\ p.currentTune # <<>>) =>
        LET t == p.currentTune[1]
        IN  /\ t.History = ValuesOf(<<"H">>, g.flog)
            /\ t.Comments = ValuesOf(<<"N">>, g.flog)
            /\ t.WordsAfterTune = ValuesOf(<<"W">>, g.flog)
            /\ t.Area = LastOf(<<"A">>, g.flog)
            /\ t.Book = LastOf(<<"B">>, g.flog)
            /\ t.Composer = LastOf(<<"C">>, g.flog)
            /\ t.Discography = LastOf(<<"D">>, g.flog)
            /\ t.FileURL = LastOf(<<"F">>, g.flog)
            /\ t.Group = LastOf(<<"G">>, g.flog)
            /\ t.Origin = LastOf(<<"O">>, g.flog)
            /\ t.Rhythm = LastOf(<<"R">>, g.flog)
            /\ t.Source = LastOf(<<"S">>, g.flog)
            /\ t.Title = LastOf(<<"T">>, g.flog)
            /\ t.Transcription = LastOf(<<"Z">>, g.flog)

\* C9's case: two H fields in one tune, the second string before the first in
\* any sorted order.
C9_Witness ==
    /\ p.pc = "parse"
    /\ p.currentTune # <<>>
    /\ p.currentTune[1].History = << <<"b">>, <<"a">> >>

\* The index of the first divide among items, 0 when there is none.
FirstDivide(ts) ==
    IF \E i \in 1..Len(ts) : ts[i].typ = "itemDivide"
    THEN CHOOSE i \in 1..Len(ts) :
            /\ ts[i].typ = "itemDivide"
            /\ \A j \in 1..(i - 1) : ts[j].typ # "itemDivide"
    ELSE 0

\* The integer values of the numbers among items, in order.
NumbersOf(ts) ==
    LET sel == SelectSeq(ts, LAMBDA e : e.typ = "itemNumber")
    IN  [i \in 1..Len(sel) |-> Atoi(sel[i].val)]

\* C10: for the M field handled last: an item before the first divide that is
\* no number and no plus, or an item after the divide that is no number, makes
\* parse return an error; otherwise, once the denominator is read (and a tune
\* is in progress), the tune is the one the field found with its Meter set to
\* the numbers before the divide over the number after it, and the handler
\* discards items until it has been handed a newline (or the end).
C10_Meter ==
    g.handled = <<"M">> =>
        LET ts == g.mtoks
            k == FirstDivide(ts)
            pre == IF k = 0 THEN ts ELSE SubSeq(ts, 1, k - 1)
            badPre == \E i \in 1..Len(pre) :
                          pre[i].typ \notin {"itemNumber", "itemPlus", "nil"}
            hasDen == k > 0 /\ Len(ts) > k
            goodDen == hasDen /\ ts[k + 1].typ = "itemNumber"
            failed == p.pc = "returned" /\ p.ret.err /\ p.ret.tunes = <<>>
        IN  /\ badPre => failed
            /\ (hasDen /\ ~goodDen) => failed
            /\ (goodDen /\ p.pc # "panic") =>
                  /\ ~failed
                  /\ g.tuneAtField # <<>>
                  /\ p.currentTune =
                        <<[g.tuneAtField[1] EXCEPT
                              !.Meter = [Numerator |-> NumbersOf(pre),
                                         Denominator |-> Atoi(ts[k + 1].val)]]>>
                  /\ p.pc = "consumeToNewline" <=>
                        \A i \in (k + 2)..Len(ts) :
                            ts[i].typ \notin {"itemNewline", "nil"}

\* C10's case: an M field of two groups joined by a plus, read to its newline.
C10_Witness ==
    /\ g.handled = <<"M">>
    /\ p.pc = "parse"
    /\ \E i \in 1..Len(g.mtoks) : g.mtoks[i].typ = "itemPlus"
    /\ p.currentTune # <<>>
    /\ p.currentTune[1].Meter = [Numerator |-> <<4, 12>>, Denominator |-> 4]


\* C11: parse of a stream with no item, or with end-of-input items only,
\* returns no error and no tune.
C11_EmptyStream ==
    g.onlyEOF =>
        /\ p.pc \in {"none", "parse", "returned"}
        /\ p.pc = "returned" => (~p.ret.err /\ p.ret.tunes = <<>>)

\* C11's case: parse has returned from a stream of one end-of-input item.
C11_Witness ==
    /\ g.onlyEOF
    /\ p.pc = "returned"
    /\ src.pos = 1

\* The two characters of each two-character marker of a body line.
MarkerText ==
    [itemThinThickDoubleBarLine |-> <<"|", "]">>,
     itemThinThinDoubleBarLine |-> <<"|", "|">>,
     itemThickThinDoubleBarLine |-> <<"[", "|">>,
     itemStartRepeat |-> <<"|", ":">>,
     itemEndRepeat |-> <<":", "|">>,
     itemStartEndRepeats |-> <<":", ":">>,
     itemDottedBarline |-> <<".", "|">>]

\* C12: an item of a two-character marker holds exactly the two characters of
\* its marker, found at the item's position in the text; the character before
\* the marker is no part of it.  (Checked under SpecLex.)
C12_MarkerIsItsTwoCharacters ==
    \A i \in 1..Len(sent) :
        sent[i].typ \in DOMAIN MarkerText =>
            /\ sent[i].val = MarkerText[sent[i].typ]
            /\ HasPrefix(sent[i].pos, MarkerText[sent[i].typ])

\* The types of a sequence of items.
Types(s) == [i \in 1..Len(s) |-> s[i].typ]

\* C13: for a text that is one line starting with '%', once the scan is over
\* the items received are a percent, a comment and an end-of-input item.
\* (Checked under SpecLex.)
C13_CommentLine ==
    (/\ closed
     /\ Len(input) >= 1
     /\ input[1] = "%"
     /\ \A i \in 1..Len(input) : ~isEndOfLine(input[i])) =>
        Types(sent) = <<"itemPercent", "itemComment", "itemEOF">>

\* The field letters lexHeaderLine has a case for.
EnumeratedHeaders ==
    {headerX, headerT, headerN, headerM, headerL, headerK, headerC, headerO, headerR}

\* C14: a field-name item whose letter lexHeaderLine has no case for is
\* followed by a string item, not by an error item.  (Checked under SpecLex.)
C14_OtherFieldIsFreeText ==
    \A i \in 1..Len(sent) :
        (/\ sent[i].typ = "itemFieldName"
         /\ sent[i].val[1] \notin EnumeratedHeaders
         /\ i < Len(sent)) =>
            sent[i + 1].typ = "itemString"

LineEnds(from, to) ==
    Cardinality({q \in (from + 1)..to :
                    \/ input[q] = "\n"
                    \/ input[q] = "\r" /\ ~(q < Len(input) /\ input[q + 1] = "\n")})

\* The newline items among items i to j of those received.
NewlineItems(i, j) == Cardinality({k \in i..j : sent[k].typ = "itemNewline"})

\* C16: in a header block, between the field-name item of an X field and that
\* of a later X field there are as many newline items as there are header
\* lines between the two in the text.  (Checked under SpecLex.)
C16_OneNewlinePerHeaderLine ==
    input \in HeaderBlocks =>
        \A i, j \in 1..Len(sent) :
            (/\ i < j
             /\ sent[i].typ = "itemFieldName" /\ sent[i].val = <<"X">>
             /\ sent[j].typ = "itemFieldName" /\ sent[j].val = <<"X">>) =>
                NewlineItems(i, j) = LineEnds(sent[i].pos, sent[j].pos)

\* C17: a step of parse leaves the sequence number of every tune it holds as
\* it is; a tune is added only by setSequence reading the number of an X
\* field, one at a time, with that number for its Sequence.  (C17 and C18 are
\* checked under SpecParse.)
C17_SequenceSetOnce ==
    [][/\ Len(TunesSoFar') >= Len(TunesSoFar)
       /\ \A i \in 1..Len(TunesSoFar) :
             TunesSoFar'[i].Sequence = TunesSoFar[i].Sequence
       /\ Len(TunesSoFar') > Len(TunesSoFar) =>
             /\ Len(TunesSoFar') = Len(TunesSoFar) + 1
             /\ g'.at = "setSequence"
             /\ g'.xlog # <<>>
             /\ TunesSoFar'[Len(TunesSoFar')].Sequence = Atoi(g'.xlog[Len(g'.xlog)])]_vars

\* C17's case: a tune created by X:12, given a title and a meter, and
\* returned.
C17_Witness ==
    /\ p.pc = "returned"
    /\ ~p.ret.err
    /\ Len(p.ret.tunes) = 1
    /\ p.ret.tunes[1].Sequence = 12
    /\ p.ret.tunes[1].Title = <<"a">>
    /\ p.ret.tunes[1].Meter.Denominator = 4

\* The names of the fields handleFieldName hands to consumeToNewline alone.
ToleratedFields ==
    {<<"I">>, <<"K">>, <<"m">>, <<"P">>, <<"Q">>, <<"r">>, <<"s">>, <<"U">>,
     <<"V">>, <<"w">>}

\* C18: a step of parse that dispatches a tolerated field, or hands an item to
\* its handler, changes neither the tune in progress nor the tunes appended so
\* far and returns no error; the handler goes on until it is handed a newline
\* (or the end of the stream) and returns to parse's loop with that item.
C18_ToleratedFieldDiscarded ==
    [][(\/ g'.dispatched \in ToleratedFields
        \/ g'.at = "consumeToNewline" /\ g.handled \in ToleratedFields) =>
           /\ p'.currentTune = p.currentTune
           /\ p'.tunes = p.tunes
           /\ p'.pc \in {"consumeToNewline", "parse"}
           /\ p'.pc = "parse" <=> (g'.at = "consumeToNewline" /\ g'.lineEnd)]_vars

\* C18's case: a K field with two items before its newline, in a tune, read to
\* that newline.
C18_Witness ==
    /\ g.handled = <<"K">>
    /\ g.at = "consumeToNewline"
    /\ g.lineEnd
    /\ p.pc = "parse"
    /\ src.pos = 7
    /\ p.currentTune # <<>>

\* The characters that make a quoted literal an annotation.
AnnotationPositions == {"^", "_", "<", ">", "@"}

\* The text of an item lies between two double quotes of the input and holds
\* none.
Quoted(it) ==
    /\ it.pos >= 1
    /\ input[it.pos] = "\""
    /\ it.pos + Len(it.val) + 1 <= Len(input)
    /\ input[it.pos + Len(it.val) + 1] = "\""
    /\ \A k \in 1..Len(it.val) : it.val[k] # "\""
    /\ it.val = SubSeq(input, it.pos + 1, it.pos + Len(it.val))

C20_FifoBackpressure ==
    [][/\ outbox # <<>> => (l' = l /\ state' = state /\ closed' = closed)
       /\ sent' # sent =>
             /\ outbox # <<>>
             /\ sent' = Append(sent, Head(outbox))
             /\ outbox' = Tail(outbox)
       /\ outbox' # outbox =>
             \/ outbox = <<>> /\ sent' = sent
             \/ outbox' = Tail(outbox) /\ sent' = Append(sent, Head(outbox))
       /\ closed' => outbox' = <<>>]_vars

\* C20's case: the parser has received two items and the goroutine waits in
\* the send of a third.
C20_Witness ==
    /\ Len(sent) >= 2
    /\ outbox # <<>>
    /\ ~closed
    /\ p.pc \notin {"none", "returned", "panic"}

\* C21: every field-name item starts at the start of a physical line, at
\* offset 0 or right after an end-of-line character.  (Checked under SpecLex.)
C21_FieldNameAtLineStart ==
    \A i \in 1..Len(sent) :
        sent[i].typ = "itemFieldName" =>
            \/ sent[i].pos = 0
            \/ isEndOfLine(input[sent[i].pos])

\* C22: for a text that is one header line with no newline after it, the
\* scanner sends no newline item and no error item, does not read on past the
\* end of the text, and once the scan is over the items are the field name,
\* the content and, last, the end of input.  (Checked under SpecLex.)
C22_LastLineWithoutNewline ==
    input \in LastLines =>
        /\ \A i \in 1..Len(sent) : sent[i].typ \notin {"itemNewline", "itemError"}
        /\ l.pos <= Len(input)
        /\ closed =>
              /\ Len(sent) >= 3
              /\ sent[1].typ = "itemFieldName"
              /\ sent[Len(sent)].typ = "itemEOF"
              /\ \A i \in 2..(Len(sent) - 1) :
                    sent[i].typ \in {"itemNumber", "itemString", "itemDivide"}

\* C23: the line of every item sent (an error item apart, whose text is a
\* message) is 1 plus the number of newline characters of the text before the
\* end of the item, where the scanner was when it sent it.  (Checked under
\* SpecLex.)
C23_LineCountsNewlinesOnce ==
    \A i \in 1..Len(sent) :
        sent[i].typ # "itemError" =>
            sent[i].line = 1 + CountNewlines(0, sent[i].pos + Len(sent[i].val))

\* An item of the first line of a text that starts with a meter field.
InMeterField(it) ==
    /\ Len(input) >= 2
    /\ input[1] = "M"
    /\ input[2] = ":"
    /\ it.pos >= 2
    /\ \A q \in 1..(it.pos + Len(it.val)) : ~isEndOfLine(input[q])

\* C24: in a meter field the text of a number item is one maximal run of
\* decimal digits and nothing else, and the text of a plus, divide or
\* parenthesis item is its one character.  (Checked under SpecLex.)
C24_MeterItemText ==
    \A i \in 1..Len(sent) :
        LET it == sent[i]
        IN  InMeterField(it) =>
                /\ it.typ = "itemNumber" =>
                      /\ it.val # <<>>
                      /\ \A k \in 1..Len(it.val) : it.val[k] \in Digits
                      /\ input[it.pos] \notin Digits
                      /\ it.pos + Len(it.val) < Len(input) =>
                            input[it.pos + Len(it.val) + 1] \notin Digits
                /\ it.typ = "itemPlus" => it.val = <<"+">>
                /\ it.typ = "itemDivide" => it.val = <<"/">>
                /\ it.typ = "itemOpenParen" => it.val = <<"(">>
                /\ it.typ = "itemCloseParen" => it.val = <<")">>

\* C25: a step of parse leaves every tune already appended as it is, and
\* appends only the tune in progress; a step that starts a tune appends the
\* one before it unchanged and starts the new one with every field but
\* Sequence at its zero value; a step that starts no tune changes no tune but
\* the one in progress.  (Checked under SpecParse.)
C25_AppendedTunesFrozen ==
    [][/\ Len(p'.tunes) >= Len(p.tunes)
       /\ SubSeq(p'.tunes, 1, Len(p.tunes)) = p.tunes
       /\ p'.tunes # p.tunes => p'.tunes = p.tunes \o p.currentTune
       /\ (p'.currentTune # p.currentTune /\ g'.xlog # g.xlog) =>
             /\ p'.tunes = p.tunes \o p.currentTune
             /\ [p'.currentTune[1] EXCEPT !.Sequence = 0] = ZeroTune
       /\ (p'.currentTune # p.currentTune /\ g'.xlog = g.xlog) =>
             /\ p'.tunes = p.tunes
             /\ p.currentTune # <<>>
             /\ p'.currentTune # <<>>]_vars

\* C25's case: a tune with a history entry appended by a second X field, and
\* an item handed to parse after that field.
C25_Witness ==
    /\ Len(p.tunes) = 1
    /\ p.tunes[1].History = << <<"a">> >>
    /\ p.currentTune # <<>>
    /\ p.currentTune[1].History = <<>>
    /\ p.currentTune[1].Sequence = 12
    /\ p.pc = "parse"
    /\ src.pos = 10

=============================================================================
